---- MODULE Spec2Model ----
(***************************************************************************)
(* Model of the interactive map component (MapComponent, second version)   *)
(* and of MapWidgetsFactory.                                               *)
(*                                                                         *)
(* One component instance is modelled.  Every run of the setup effect is a *)
(* "mount" m in 1..MaxMounts with its own closure (mounted[m], pc[m],      *)
(* bounds[m]) and its own SDK objects         (the view and the ten      *)
(* widgets constructed by that run).  The refs, the React state and the    *)
(* point data belong to the instance.                                      *)
(***************************************************************************)
EXTENDS Integers, Sequences, FiniteSets, TLC

\* ------------------------------------------------------------------------
\* Bounds of the model
\* ------------------------------------------------------------------------
MaxMounts == 2      \* runs of the setup effect of the instance
MaxPoints == 2      \* length of the point lists of SpecBounds
MaxCoord == 2       \* finite coordinates are 0..MaxCoord

Mounts == 1..MaxMounts

\* ------------------------------------------------------------------------
\* JavaScript values that occur as coordinate entries
\* ------------------------------------------------------------------------
Num(n) == [t |-> "num", v |-> n]
NaN == [t |-> "nan", v |-> 0]
PosInf == [t |-> "inf", v |-> 0]
NegInf == [t |-> "ninf", v |-> 0]
Str == [t |-> "str", v |-> 0]

FiniteNums == {Num(n) : n \in 0..MaxCoord}
Values == FiniteNums \cup {NaN, PosInf, NegInf, Str}

typeofNumber(x) == x.t \in {"num", "nan", "inf", "ninf"}

\* isNaN coerces its argument: a non-numeric string becomes NaN
isNaN(x) == x.t \in {"nan", "str"}

isFinite(x) == x.t = "num"

\* a <= b on numbers that are not NaN
Le(a, b) ==
  \/ a.t = "ninf"
  \/ b.t = "inf"
  \/ a.t = "num" /\ b.t = "num" /\ a.v <= b.v

MathMin(a, b) ==
  IF isNaN(a) \/ isNaN(b) THEN NaN ELSE IF Le(a, b) THEN a ELSE b

MathMax(a, b) ==
  IF isNaN(a) \/ isNaN(b) THEN NaN ELSE IF Le(a, b) THEN b ELSE a

\* ------------------------------------------------------------------------
\* Point records: coordinates may be absent (present = FALSE) or an array
\* ------------------------------------------------------------------------
Point(lon, lat) == [present |-> TRUE, coordinates |-> <<lon, lat>>]
NoCoordinates == [present |-> FALSE, coordinates |-> <<>>]
EmptyCoordinates == [present |-> TRUE, coordinates |-> <<>>]
ShortCoordinates == [present |-> TRUE, coordinates |-> <<Num(0)>>]

Points ==
  {Point(a, b) : a \in Values, b \in Values}
    \cup {NoCoordinates, EmptyCoordinates, ShortCoordinates}

PointLists == UNION {[1..n -> Points] : n \in 0..MaxPoints}

\* the two tests of calculateBounds / addPointsToLayer on one record
hasCoordinatePair(point) == point.present /\ Len(point.coordinates) >= 2

validNumbers_noNaNCheck(point) ==
  /\ typeofNumber(point.coordinates[1])
  /\ typeofNumber(point.coordinates[2])

validNumbers(point) ==
  /\ typeofNumber(point.coordinates[1])
  /\ typeofNumber(point.coordinates[2])
  /\ ~isNaN(point.coordinates[1])
  /\ ~isNaN(point.coordinates[2])

usable(point) == hasCoordinatePair(point) /\ validNumbers(point)

\* ------------------------------------------------------------------------
\* calculateBounds
\* ------------------------------------------------------------------------
NoBox == <<>>
Failure(msg) == [err |-> msg, box |-> NoBox]
Box(minLon, minLat, maxLon, maxLat) ==
  [err |-> "", box |-> <<<<minLon, minLat>>, <<maxLon, maxLat>>>>]
NoResult == [err |-> "pending", box |-> NoBox]

StartAcc ==
  [minLon |-> PosInf, minLat |-> PosInf, maxLon |-> NegInf, maxLat |-> NegInf]

BoundsStep_maxLatFromLon(acc, point) ==
  IF ~hasCoordinatePair(point) THEN acc
  ELSE IF ~validNumbers(point) THEN acc
  ELSE LET lon == point.coordinates[1]
           lat == point.coordinates[2]
       IN [minLon |-> MathMin(acc.minLon, lon),
           maxLon |-> MathMax(acc.maxLon, lon),
           minLat |-> MathMin(acc.minLat, lat),
           maxLat |-> MathMax(acc.maxLat, lon)]

\* body of the forEach callback
BoundsStep(acc, point) ==
  IF ~hasCoordinatePair(point) THEN acc
  ELSE IF ~validNumbers(point) THEN acc
  ELSE LET lon == point.coordinates[1]
           lat == point.coordinates[2]
       IN [minLon |-> MathMin(acc.minLon, lon),
           maxLon |-> MathMax(acc.maxLon, lon),
           minLat |-> MathMin(acc.minLat, lat),
           maxLat |-> MathMax(acc.maxLat, lat)]

RECURSIVE BoundsPass(_, _, _)
BoundsPass(points, i, acc) ==
  IF i > Len(points) THEN acc
  ELSE BoundsPass(points, i + 1, BoundsStep(acc, points[i]))

boundsFinite_unchecked(acc) == TRUE

boundsFinite(acc) ==
  /\ isFinite(acc.minLon)
  /\ isFinite(acc.maxLon)
  /\ isFinite(acc.minLat)
  /\ isFinite(acc.maxLat)

calculateBounds(points) ==
  IF Len(points) = 0 THEN Failure("No points data available")
  ELSE LET acc == BoundsPass(points, 1, StartAcc)
       IN IF ~boundsFinite(acc)
          THEN Failure("Invalid bounds calculated from points")
          ELSE Box(acc.minLon, acc.minLat, acc.maxLon, acc.maxLat)

\* number of graphics addPointsToLayer adds to the layer
RECURSIVE CountUsable(_, _)
CountUsable(points, i) ==
  IF i > Len(points) THEN 0
  ELSE (IF usable(points[i]) THEN 1 ELSE 0) + CountUsable(points, i + 1)


\* ------------------------------------------------------------------------
\* Widgets, handles and the view's UI surface
\* ------------------------------------------------------------------------
\* key order of the object literal of createAllWidgets; sketch is added last
WidgetOrder ==
  <<"home", "compass", "locate", "search", "scaleBar", "fullscreen",
    "basemapGallery", "coordinateConversion", "measurement", "sketch">>

WidgetNames == {WidgetOrder[i] : i \in 1..Len(WidgetOrder)}
Handles == WidgetNames \cup {"view"}

IndexOf(w) == CHOOSE i \in 1..Len(WidgetOrder) : WidgetOrder[i] = w
WidgetsBefore(w) == {WidgetOrder[i] : i \in 1..(IndexOf(w) - 1)}

Anchors == {"top-left", "top-right", "bottom-right", "bottom-left"}
NotOnUi == "none"

DefaultAnchor_withGallery(w) ==
  CASE w \in {"home", "compass", "locate"} -> "top-left"
    [] w \in {"search", "fullscreen"} -> "top-right"
    [] w \in {"scaleBar", "basemapGallery"} -> "bottom-right"
    [] w = "coordinateConversion" -> "bottom-left"
    [] OTHER -> NotOnUi

\* the seven ui.add calls of initializeMap
DefaultAnchor(w) ==
  CASE w \in {"home", "compass", "locate"} -> "top-left"
    [] w \in {"search", "fullscreen"} -> "top-right"
    [] w = "scaleBar" -> "bottom-right"
    [] w = "coordinateConversion" -> "bottom-left"
    [] OTHER -> NotOnUi

EmptyUi == [w \in WidgetNames |-> NotOnUi]
DefaultUi == [w \in WidgetNames |-> DefaultAnchor(w)]
OnUi(surface) == {w \in WidgetNames : surface[w] # NotOnUi}

\* widgetsRef.current = {} / createdWidgets of mount m
NoWidgets == [w \in WidgetNames |-> 0]
WidgetsOf(m) == [w \in WidgetNames |-> m]

Null == "null"

Props == [click : BOOLEAN, extent : BOOLEAN]

\* point data of the component specification
SampleData ==
  <<Point(Num(1), Num(2)), Point(Num(0), NaN), Point(Num(2), Num(0))>>

DataSets == {<<>>, <<Point(Str, Num(1)), NoCoordinates>>, SampleData}

BothCallbacks == [click |-> TRUE, extent |-> TRUE]
NoCallbacks == [click |-> FALSE, extent |-> FALSE]

\* the handle whose destroy() throws: the first, a toggled and the last
\* widget in Object.values order, the view, or none
Throwers == {"none", "home", "measurement", "sketch", "view"}

\* where the synchronous part of initializeMap can throw
FailPoints == {"none", "map", "layer", "view"} \cup WidgetNames

VARIABLES
  pointsData,      \* the bundled point list
  callbacks,       \* which of onMapClick / onExtentChange the parent supplies
  throwing,        \* the handle whose destroy() throws, "none" if none does
  flush,           \* position in React's synchronous effect flush
  cur,             \* number of runs of the setup effect so far
  loading, error, toolsOpen, basemapOpen,       \* React state
  toolsOpenRef, basemapOpenRef,                 \* refs written by the toggles
  viewRef, widgetsRef,                          \* refs owning the SDK objects
  mounted,         \* per mount: the closure flag
  pc,              \* per mount: where the async setup is suspended
  initErr,         \* per mount: rejection of initializeMap(), "" if fulfilled
  bounds,          \* per mount: result of addPointsToLayer
  created,         \* per mount: SDK handles that were constructed
  destroyCalls,    \* per mount: destroy() invocations received by a handle
  destroyLog,      \* per mount: handles whose destroy() threw and was logged
  destroyOrder,    \* every destroy() invocation so far, in program order
  ui,              \* per mount: the view's UI surface, widget -> anchor
  uiTarget,        \* view that received the add/remove calls of the latest
                   \* toggle effect run, 0 if it returned early
  clickSubs, watchSubs,   \* per mount: view.on("click") / view.watch calls
  goToTarget,      \* per mount: the target of the goTo call
  graphics,        \* per mount: graphics added to the layer
  lateUpdate       \* per mount: a state setter was called after cleanup

compVars == <<loading, error, toolsOpen, basemapOpen>>
refVars == <<viewRef, widgetsRef>>
toggleRefVars == <<toolsOpenRef, basemapOpenRef>>
closureVars == <<mounted, pc, initErr, bounds>>
inputVars == <<pointsData, callbacks, throwing>>
destroyVars == <<destroyCalls, destroyLog, destroyOrder>>
sdkVars == <<created, ui, uiTarget, clickSubs, watchSubs, goToTarget, graphics>>

vars ==
  <<pointsData, callbacks, throwing, flush, cur, loading, error, toolsOpen,
    basemapOpen, toolsOpenRef, basemapOpenRef, viewRef, widgetsRef, mounted,
    pc, initErr, bounds, created, destroyCalls, destroyLog, destroyOrder, ui,
    uiTarget,
    clickSubs, watchSubs, goToTarget, graphics, lateUpdate>>

\* state after the first render, before any effect has run
InitCommon ==
  /\ cur = 0
  /\ loading = TRUE
  /\ error = Null
  /\ toolsOpen = FALSE
  /\ basemapOpen = FALSE
  /\ toolsOpenRef = FALSE
  /\ basemapOpenRef = FALSE
  /\ viewRef = 0
  /\ widgetsRef = NoWidgets
  /\ mounted = [m \in Mounts |-> FALSE]
  /\ pc = [m \in Mounts |-> "idle"]
  /\ initErr = [m \in Mounts |-> ""]
  /\ bounds = [m \in Mounts |-> NoResult]
  /\ created = [m \in Mounts |-> {}]
  /\ destroyCalls = [m \in Mounts |-> [h \in Handles |-> 0]]
  /\ destroyLog = [m \in Mounts |-> {}]
  /\ destroyOrder = <<>>
  /\ ui = [m \in Mounts |-> EmptyUi]
  /\ uiTarget = 0
  /\ clickSubs = [m \in Mounts |-> 0]
  /\ watchSubs = [m \in Mounts |-> 0]
  /\ goToTarget = [m \in Mounts |-> NoBox]
  /\ graphics = [m \in Mounts |-> 0]
  /\ lateUpdate = [m \in Mounts |-> FALSE]

\* inputs of one run: every data set, every choice of callbacks and every
\* throwing destroy(), each varied with the other two at their sample value
Inputs ==
  {[data |-> d, callbacks |-> BothCallbacks, throwing |-> "none"] :
     d \in DataSets}
    \cup {[data |-> SampleData, callbacks |-> c, throwing |-> "none"] :
            c \in Props}
    \cup {[data |-> SampleData, callbacks |-> BothCallbacks, throwing |-> t] :
            t \in Throwers}

Init ==
  /\ \E i \in Inputs :
       /\ pointsData = i.data
       /\ callbacks = i.callbacks
       /\ throwing = i.throwing
  /\ flush = "mount"
  /\ InitCommon

\* ------------------------------------------------------------------------
\* MapWidgetsFactory.createAllWidgets and initializeMap
\* ------------------------------------------------------------------------
\* the widgets constructed before the constructor named failAt throws
createAllWidgets(failAt) ==
  IF failAt \in WidgetNames
  THEN [err |-> "Failed to create widgets", made |-> WidgetsBefore(failAt)]
  ELSE [err |-> "", made |-> WidgetNames]

\* lines 286-287 run only when createAllWidgets returned
storeRefs(cw) == cw.err = ""

\* synchronous body of initializeMap: the rejection message, the handles
\* constructed, and whether they were stored in viewRef / widgetsRef
initializeMap(containerPresent, failAt) ==
  IF ~containerPresent
  THEN [err |-> "Map container not found", made |-> {}, stored |-> FALSE]
  ELSE IF failAt \in {"map", "layer", "view"}
  THEN [err |-> "Map initialization failed", made |-> {}, stored |-> FALSE]
  ELSE LET cw == createAllWidgets(failAt)
       IN [err |-> IF cw.err = "" THEN "" ELSE "Map initialization failed",
           made |-> {"view"} \cup cw.made,
           stored |-> storeRefs(cw)]


\* ------------------------------------------------------------------------
\* Scheduling: the effect flush is synchronous, the continuation after
\* `await initializeMap()` is a microtask, everything else is a task
\* ------------------------------------------------------------------------
MicrotasksPending == \E m \in Mounts : pc[m] = "afterInit"
TaskCanRun == flush \in {"idle", "unmounted"} /\ ~MicrotasksPending
ComponentIdle == flush = "idle" /\ ~MicrotasksPending

\* a state setter called by mount m; React drops it once the component is gone
SetState(m, newLoading, newError) ==
  /\ loading' = IF flush = "unmounted" THEN loading ELSE newLoading
  /\ error' = IF flush = "unmounted" THEN error ELSE newError
  /\ lateUpdate' = [lateUpdate EXCEPT ![m] = @ \/ ~mounted[m]]

\* catch branch of setup
Catch(m, msg) ==
  /\ pc' = [pc EXCEPT ![m] = "failed"]
  /\ IF mounted[m]
     THEN SetState(m, FALSE, msg)
     ELSE UNCHANGED <<loading, error, lateUpdate>>

\* ------------------------------------------------------------------------
\* Setup effect, synchronous part: setLoading(true), setError(null) and the
\* body of initializeMap up to the first await
\* ------------------------------------------------------------------------
Setup ==
  /\ flush \in {"mount", "rerun"}
  /\ cur < MaxMounts
  /\ \E failAt \in FailPoints :
       LET m == cur + 1
           \* the map container is rendered only while no error is shown
           r == initializeMap(error = Null, failAt)
       IN /\ cur' = m
          /\ mounted' = [mounted EXCEPT ![m] = TRUE]
          /\ loading' = TRUE
          /\ error' = Null
          /\ initErr' = [initErr EXCEPT ![m] = r.err]
          /\ pc' = [pc EXCEPT ![m] = "afterInit"]
          /\ created' = [created EXCEPT ![m] = r.made]
          /\ viewRef' = IF r.stored THEN m ELSE viewRef
          /\ widgetsRef' = IF r.stored THEN WidgetsOf(m) ELSE widgetsRef
          /\ ui' = [ui EXCEPT ![m] = IF r.err = "" THEN DefaultUi ELSE @]
          /\ flush' = IF flush = "mount" THEN "basemap" ELSE "idle"
  /\ UNCHANGED <<inputVars, toolsOpen, basemapOpen, toggleRefVars, bounds,
                 destroyVars, uiTarget, clickSubs, watchSubs, goToTarget,
                 graphics, lateUpdate>>

\* ------------------------------------------------------------------------
\* Toggle effects
\* ------------------------------------------------------------------------
BasemapEffect_closureView(open) ==
  LET view == IF viewRef # 0 THEN viewRef ELSE cur
  IN /\ ui' = [ui EXCEPT ![view]["basemapGallery"] =
                 IF open THEN "bottom-right" ELSE NotOnUi]
     /\ uiTarget' = view
     /\ basemapOpenRef' = open

BasemapEffect(open) ==
  LET view == viewRef
      basemapGallery == widgetsRef["basemapGallery"]
  IN IF view = 0 \/ basemapGallery = 0
     THEN /\ uiTarget' = 0
          /\ UNCHANGED <<ui, basemapOpenRef>>
     ELSE /\ ui' = [ui EXCEPT ![view]["basemapGallery"] =
                      IF open THEN "bottom-right" ELSE NotOnUi]
          /\ uiTarget' = view
          /\ basemapOpenRef' = open

ToolsEffect(open) ==
  LET view == viewRef
      measurement == widgetsRef["measurement"]
      sketch == widgetsRef["sketch"]
  IN IF view = 0 \/ measurement = 0 \/ sketch = 0
     THEN /\ uiTarget' = 0
          /\ UNCHANGED <<ui, toolsOpenRef>>
     ELSE /\ ui' = [ui EXCEPT ![view] =
                      [w \in WidgetNames |->
                         IF w \in {"measurement", "sketch"}
                         THEN (IF open THEN "bottom-right" ELSE NotOnUi)
                         ELSE @[w]]]
          /\ uiTarget' = view
          /\ toolsOpenRef' = open

toggleFrame ==
  <<inputVars, cur, loading, error, refVars, closureVars, destroyVars,
    created, clickSubs, watchSubs, goToTarget, graphics, lateUpdate>>

\* first run of the two toggle effects, in the flush that mounted the component
EffectBasemap ==
  /\ flush = "basemap"
  /\ BasemapEffect(basemapOpen)
  /\ flush' = "tools"
  /\ UNCHANGED <<toggleFrame, toolsOpen, basemapOpen, toolsOpenRef>>

EffectTools ==
  /\ flush = "tools"
  /\ ToolsEffect(toolsOpen)
  /\ flush' = "idle"
  /\ UNCHANGED <<toggleFrame, toolsOpen, basemapOpen, basemapOpenRef>>

\* the buttons are rendered only while no error panel is shown
ButtonsRendered == ComponentIdle /\ error = Null

\* handleBasemapToggle, the re-render and the effect on [basemapOpen]
ToggleBasemap ==
  /\ ButtonsRendered
  /\ basemapOpen' = ~basemapOpen
  /\ BasemapEffect(~basemapOpen)
  /\ UNCHANGED <<toggleFrame, flush, toolsOpen, toolsOpenRef>>

\* handleToolsToggle, the re-render and the effect on [toolsOpen]
ToggleTools ==
  /\ ButtonsRendered
  /\ toolsOpen' = ~toolsOpen
  /\ ToolsEffect(~toolsOpen)
  /\ UNCHANGED <<toggleFrame, flush, basemapOpen, basemapOpenRef>>


\* ------------------------------------------------------------------------
\* Asynchronous part of setup
\* ------------------------------------------------------------------------
asyncFrame ==
  <<inputVars, flush, cur, toolsOpen, basemapOpen, toggleRefVars, refVars,
    mounted, initErr, destroyVars, created, ui, uiTarget>>

subscribe_unconditional(supplied, count) == count + 1

\* `if (onMapClick) mapView.on(...)` / `if (onExtentChange) mapView.watch(...)`
subscribe(supplied, count) == IF supplied THEN count + 1 ELSE count

\* continuation after `await initializeMap()` up to `await mapView.when()`;
\* graphicThrows: the Graphic constructor or layer.add throws
AfterInit(m) ==
  /\ pc[m] = "afterInit"
  /\ flush \in {"idle", "unmounted"}
  /\ \E graphicThrows \in BOOLEAN :
       LET b == calculateBounds(pointsData)
           n == CountUsable(pointsData, 1)
       IN IF initErr[m] # ""
          THEN /\ ~graphicThrows
               /\ Catch(m, initErr[m])
               /\ UNCHANGED <<bounds, clickSubs, watchSubs, graphics>>
          ELSE IF ~mounted[m]
          THEN /\ ~graphicThrows
               /\ pc' = [pc EXCEPT ![m] = "returned"]
               /\ UNCHANGED <<loading, error, lateUpdate, bounds, clickSubs,
                              watchSubs, graphics>>
          ELSE IF graphicThrows
          THEN /\ n > 0
               /\ Catch(m, "Graphic could not be added")
               /\ UNCHANGED <<bounds, clickSubs, watchSubs, graphics>>
          ELSE IF b.err # ""
          THEN /\ graphics' = [graphics EXCEPT ![m] = n]
               /\ Catch(m, b.err)
               /\ UNCHANGED <<bounds, clickSubs, watchSubs>>
          ELSE /\ graphics' = [graphics EXCEPT ![m] = n]
               /\ bounds' = [bounds EXCEPT ![m] = b]
               /\ clickSubs' = [clickSubs EXCEPT
                                  ![m] = subscribe(callbacks.click, @)]
               /\ watchSubs' = [watchSubs EXCEPT
                                  ![m] = subscribe(callbacks.extent, @)]
               /\ pc' = [pc EXCEPT ![m] = "when"]
               /\ UNCHANGED <<loading, error, lateUpdate>>
  /\ UNCHANGED <<asyncFrame, goToTarget>>

\* mapView.when() settles; when fulfilled and still mounted, goTo is issued
WhenSettled(m) ==
  /\ pc[m] = "when"
  /\ TaskCanRun
  /\ \E fulfilled \in BOOLEAN :
       IF ~fulfilled
       THEN /\ Catch(m, "view.when rejected")
            /\ UNCHANGED goToTarget
       ELSE IF mounted[m]
       THEN /\ goToTarget' = [goToTarget EXCEPT ![m] = bounds[m].box]
            /\ pc' = [pc EXCEPT ![m] = "goTo"]
            /\ UNCHANGED <<loading, error, lateUpdate>>
       ELSE /\ pc' = [pc EXCEPT ![m] = "returned"]
            /\ UNCHANGED <<loading, error, lateUpdate, goToTarget>>
  /\ UNCHANGED <<asyncFrame, bounds, clickSubs, watchSubs, graphics>>

\* mapView.goTo() settles; setLoading(false) follows the await unguarded
GoToSettled(m) ==
  /\ pc[m] = "goTo"
  /\ TaskCanRun
  /\ \E fulfilled \in BOOLEAN :
       IF fulfilled
       THEN /\ SetState(m, FALSE, error)
            /\ pc' = [pc EXCEPT ![m] = "ready"]
       ELSE Catch(m, "view.goTo rejected")
  /\ UNCHANGED <<asyncFrame, bounds, clickSubs, watchSubs, graphics,
                 goToTarget>>

\* ------------------------------------------------------------------------
\* MapWidgetsFactory.destroyWidgets / destroyView and the effect cleanup
\* ------------------------------------------------------------------------
\* widgets up to and including w in Object.values order
UpTo(w) == WidgetsBefore(w) \cup {w}

destroyWidgets_noCatch(widgets, thrower) ==
  LET held == {w \in WidgetNames : widgets[w] # 0}
  IN IF thrower \in held
     THEN [invoked |-> held \cap UpTo(thrower), logged |-> {},
           propagated |-> TRUE]
     ELSE [invoked |-> held, logged |-> {}, propagated |-> FALSE]

\* every held widget gets destroy(); a throw is caught and logged per widget
destroyWidgets(widgets, thrower) ==
  LET held == {w \in WidgetNames : widgets[w] # 0}
  IN [invoked |-> held, logged |-> held \cap {thrower}, propagated |-> FALSE]

destroyView(view, thrower) ==
  [invoked |-> IF view # 0 THEN {"view"} ELSE {},
   logged |-> IF view # 0 /\ thrower = "view" THEN {"view"} ELSE {}]

\* the widgets of S in Object.values order (forEach of destroyWidgets)
InOrder(S) == SelectSeq(WidgetOrder, LAMBDA w : w \in S)

teardownOrder_viewFirst(widgetCalls, viewCalls) == viewCalls \o widgetCalls

\* the cleanup calls destroyWidgets first and destroyView second
teardownOrder(widgetCalls, viewCalls) == widgetCalls \o viewCalls

keepMounted(m) == mounted

clearMounted(m) == [mounted EXCEPT ![m] = FALSE]

\* cleanup of the setup effect of mount m
Cleanup(m) ==
  LET dw == destroyWidgets(widgetsRef, throwing)
      dv == IF dw.propagated THEN destroyView(0, throwing)
            ELSE destroyView(viewRef, throwing)
      owner(h) == IF h = "view" THEN viewRef ELSE widgetsRef[h]
      invoked == dw.invoked \cup dv.invoked
      logged == dw.logged \cup dv.logged
      calls == teardownOrder(InOrder(dw.invoked),
                             IF "view" \in dv.invoked THEN <<"view">>
                             ELSE <<>>)
  IN /\ mounted' = clearMounted(m)
     /\ destroyOrder' =
          destroyOrder \o
            [i \in 1..Len(calls) |-> [m |-> owner(calls[i]), h |-> calls[i]]]
     /\ destroyCalls' =
          [k \in Mounts |->
             [h \in Handles |->
                IF h \in invoked /\ owner(h) = k
                THEN destroyCalls[k][h] + 1 ELSE destroyCalls[k][h]]]
     /\ destroyLog' =
          [k \in Mounts |->
             destroyLog[k] \cup {h \in logged : owner(h) = k}]
     /\ widgetsRef' = IF dw.propagated THEN widgetsRef ELSE NoWidgets
     /\ viewRef' = IF dw.propagated THEN viewRef ELSE 0
     \* a view that was torn down has no UI elements left
     /\ ui' = [k \in Mounts |->
                IF "view" \in dv.invoked \ dv.logged /\ viewRef = k
                THEN EmptyUi ELSE ui[k]]

cleanupFrame ==
  <<inputVars, cur, compVars, toggleRefVars, pc, initErr, bounds, created,
    uiTarget, clickSubs, watchSubs, goToTarget, graphics, lateUpdate>>

\* a dependency of the setup effect changed identity: cleanup, then setup
DepChange ==
  /\ ComponentIdle
  /\ cur >= 1
  /\ cur < MaxMounts
  /\ Cleanup(cur)
  /\ flush' = "rerun"
  /\ UNCHANGED cleanupFrame

\* development double invocation: all effects are torn down and run again
\* right after the first flush, before any microtask
StrictRemount ==
  /\ flush = "idle"
  /\ cur = 1
  /\ cur < MaxMounts
  /\ pc[1] = "afterInit"
  /\ Cleanup(cur)
  /\ flush' = "mount"
  /\ UNCHANGED cleanupFrame

\* the component is removed
Unmount ==
  /\ ComponentIdle
  /\ cur >= 1
  /\ Cleanup(cur)
  /\ flush' = "unmounted"
  /\ UNCHANGED cleanupFrame

Next ==
  \/ Setup
  \/ EffectBasemap
  \/ EffectTools
  \/ \E m \in Mounts : AfterInit(m)
  \/ \E m \in Mounts : WhenSettled(m)
  \/ \E m \in Mounts : GoToSettled(m)
  \/ ToggleBasemap
  \/ ToggleTools
  \/ DepChange
  \/ StrictRemount
  \/ Unmount

Spec == Init /\ [][Next]_vars

TypeOK ==
  /\ cur \in 0..MaxMounts
  /\ flush \in {"mount", "rerun", "basemap", "tools", "idle", "unmounted",
               "bounds"}
  /\ viewRef \in 0..MaxMounts
  /\ \A m \in Mounts : created[m] \subseteq Handles


\* ------------------------------------------------------------------------
\* Specification of the bounds computation alone: addPointsToLayer applied
\* to every point list of at most MaxPoints records
\* ------------------------------------------------------------------------
InitBounds ==
  /\ pointsData \in PointLists
  /\ callbacks = NoCallbacks
  /\ throwing = "none"
  /\ flush = "bounds"
  /\ InitCommon

AddPointsToLayer ==
  /\ flush = "bounds"
  /\ bounds[1] = NoResult
  /\ graphics' = [graphics EXCEPT ![1] = CountUsable(pointsData, 1)]
  /\ bounds' = [bounds EXCEPT ![1] = calculateBounds(pointsData)]
  /\ UNCHANGED <<inputVars, flush, cur, compVars, toggleRefVars, refVars,
                 mounted, pc, initErr, destroyVars, created, ui, uiTarget,
                 clickSubs, watchSubs, goToTarget, lateUpdate>>

NextBounds == AddPointsToLayer

SpecBounds == InitBounds /\ [][NextBounds]_vars


\* ------------------------------------------------------------------------
\* Properties
\* ------------------------------------------------------------------------
Started(m) == pc[m] # "idle"
CleanedUp(m) == Started(m) /\ ~mounted[m]
Pending(m) == pc[m] \in {"afterInit", "when", "goTo"}

\* C1: once the cleanup of a mount has run, every handle constructed during
\* that mount has received exactly one destroy() and every handle that was
\* not constructed has received none.
C1_ConstructedHandlesDestroyedOnce ==
  \A m \in Mounts :
    CleanedUp(m) =>
      \A h \in Handles :
        destroyCalls[m][h] = IF h \in created[m] THEN 1 ELSE 0

\* C2: after the cleanup of a mount has set mounted to false, no step of
\* that mount's setup sequence calls setLoading or setError.
C2_NoStateUpdateAfterCleanup ==
  \A m \in Mounts : ~lateUpdate[m]

\* a record as the claims describe a structurally valid one: coordinates
\* present, at least two entries, the first two being numbers other than NaN
IsNumberNotNaN(x) == x.t \in {"num", "inf", "ninf"}
StructurallyValid(p) ==
  /\ p.present
  /\ Len(p.coordinates) >= 2
  /\ IsNumberNotNaN(p.coordinates[1])
  /\ IsNumberNotNaN(p.coordinates[2])
FinitePoint(p) ==
  /\ StructurallyValid(p)
  /\ p.coordinates[1].t = "num"
  /\ p.coordinates[2].t = "num"

ValidPoints(points) ==
  {points[i] : i \in {j \in 1..Len(points) : StructurallyValid(points[j])}}

\* least and greatest element of a non-empty set of extended numbers
Least(S) == CHOOSE x \in S : \A y \in S : Le(x, y)
Greatest(S) == CHOOSE x \in S : \A y \in S : Le(y, x)
Lons(P) == {p.coordinates[1] : p \in P}
Lats(P) == {p.coordinates[2] : p \in P}

\* C3: for a non-empty list of points with two finite numbers each,
\* calculateBounds returns a box that encloses every point and each of whose
\* four bounds is the coordinate of some point of the list.
C3_BoundsEncloseAndAttain ==
  (/\ bounds[1] # NoResult
   /\ Len(pointsData) > 0
   /\ \A i \in 1..Len(pointsData) : FinitePoint(pointsData[i]))
  => /\ bounds[1].err = ""
     /\ LET box == bounds[1].box
            idx == 1..Len(pointsData)
            lon(i) == pointsData[i].coordinates[1]
            lat(i) == pointsData[i].coordinates[2]
        IN /\ \A i \in idx :
                /\ Le(box[1][1], lon(i)) /\ Le(lon(i), box[2][1])
                /\ Le(box[1][2], lat(i)) /\ Le(lat(i), box[2][2])
           /\ \E i \in idx : lon(i) = box[1][1]
           /\ \E i \in idx : lon(i) = box[2][1]
           /\ \E i \in idx : lat(i) = box[1][2]
           /\ \E i \in idx : lat(i) = box[2][2]

C3_Witness ==
  /\ bounds[1].err = ""
  /\ Len(pointsData) = 2
  /\ \A i \in 1..2 : FinitePoint(pointsData[i])
  /\ bounds[1].box[1][1] # bounds[1].box[2][1]
  /\ bounds[1].box[1][2] # bounds[1].box[2][2]

\* C4: the computed box is the bounding box of exactly the structurally
\* valid records: it is returned if and only if there is a valid record and
\* all valid records are finite, and then it is the least and greatest
\* longitude and latitude over the valid records alone.
C4_ExactlyValidRecordsCount ==
  bounds[1] # NoResult =>
    LET V == ValidPoints(pointsData)
    IN /\ bounds[1].err = "" <=> (V # {} /\ \A p \in V : FinitePoint(p))
       /\ bounds[1].err = "" =>
            bounds[1].box = << <<Least(Lons(V)), Least(Lats(V))>>,
                               <<Greatest(Lons(V)), Greatest(Lats(V))>> >>

C4_Witness ==
  /\ bounds[1].err = ""
  /\ \E i \in 1..Len(pointsData) : ~StructurallyValid(pointsData[i])
  /\ \E i \in 1..Len(pointsData) : StructurallyValid(pointsData[i])

NoUsablePoints ==
  \A i \in 1..Len(pointsData) : ~StructurallyValid(pointsData[i])

\* C5: with an empty or all-invalid point list no goTo is ever issued, a
\* sequence that reaches the bounds computation fails and leaves the mounted
\* component Failed with loading cleared; no goTo target ever holds an
\* infinite bound.
C5_NoUsablePointsFails ==
  /\ NoUsablePoints =>
       \A m \in Mounts :
         /\ goToTarget[m] = NoBox
         /\ pc[m] \notin {"when", "goTo", "ready"}
         /\ (mounted[m] /\ pc[m] \notin {"idle", "afterInit"}) =>
              /\ pc[m] = "failed"
              /\ error # Null
              /\ loading = FALSE
  /\ \A m \in Mounts :
       goToTarget[m] # NoBox =>
         \A i \in 1..2, j \in 1..2 : goToTarget[m][i][j].t = "num"

C5_Witness ==
  /\ NoUsablePoints
  /\ Len(pointsData) > 0
  /\ \E m \in Mounts :
       /\ mounted[m]
       /\ pc[m] = "failed"
       /\ initErr[m] = ""
       /\ error = "Invalid bounds calculated from points"
       /\ loading = FALSE


ToolWidgets == {"measurement", "sketch"}
ToolsConstructed ==
  viewRef # 0 /\ widgetsRef["measurement"] # 0 /\ widgetsRef["sketch"] # 0
BasemapConstructed == viewRef # 0 /\ widgetsRef["basemapGallery"] # 0

\* the toggle adds exactly the set W to the surface of the live view when it
\* opens and removes exactly W when it closes
RoundTripStep(open, W) ==
  LET before == OnUi(ui[viewRef])
      after == OnUi(ui'[viewRef])
  IN IF open
     THEN before \cap W = {} /\ after = before \cup W
     ELSE W \subseteq before /\ after = before \ W

\* C6: with the view and widgets constructed, opening "tools" adds exactly
\* measurement and sketch, closing it removes exactly those two (so two
\* consecutive toggles restore the surface); likewise "basemap" for the
\* basemap gallery alone.
C6_ToggleRoundTrip ==
  [][/\ (ToggleTools /\ ToolsConstructed) =>
          RoundTripStep(toolsOpen', ToolWidgets)
     /\ (ToggleBasemap /\ BasemapConstructed) =>
          RoundTripStep(basemapOpen', {"basemapGallery"})]_vars

\* C7: a toggle effect that runs while the view or the widgets it controls
\* are not constructed changes no UI surface and no handle and calls
\* add/remove on no view.
C7_ToggleWithoutHandlesIsNoOp ==
  [][(\/ (EffectBasemap \/ ToggleBasemap) /\ ~BasemapConstructed
      \/ (EffectTools \/ ToggleTools) /\ ~ToolsConstructed)
     => /\ uiTarget' = 0
        /\ UNCHANGED <<ui, viewRef, widgetsRef, created, destroyCalls>>]_vars

C7_Witness ==
  /\ flush = "tools"
  /\ cur >= 1
  /\ viewRef = 0
  /\ "view" \in created[cur]
  /\ uiTarget = 0

\* C8: the component shows Ready (loading false, no error) only once the
\* goTo of the current setup sequence has completed successfully, and a
\* sequence that failed leaves the mounted component Failed: error set and
\* loading false.
C8_LifecycleOrder ==
  /\ (flush = "idle" /\ loading = FALSE /\ error = Null) =>
       (cur >= 1 /\ pc[cur] = "ready")
  /\ \A m \in Mounts :
       (mounted[m] /\ pc[m] = "failed") => (error # Null /\ loading = FALSE)

\* C9 as stated: a new setup sequence never starts or runs while an earlier
\* sequence still has pending steps.
C9_NoSequenceOverlap ==
  Cardinality({m \in Mounts : Pending(m)}) <= 1

\* C9 amended: at most one sequence is live (mounted flag true) and it is
\* the latest one; a sequence whose cleanup has run may still have pending
\* steps, but it constructs nothing, adds no graphics, subscribes no
\* listener and issues no goTo any more.
C9_OneLiveSequence ==
  /\ [](/\ Cardinality({m \in Mounts : mounted[m]}) <= 1
        /\ \A m \in Mounts : mounted[m] => m = cur
        /\ \A m \in Mounts : Started(m) <=> m <= cur)
  /\ [][\A m \in Mounts :
          CleanedUp(m) =>
            /\ created'[m] = created[m]
            /\ graphics'[m] = graphics[m]
            /\ clickSubs'[m] = clickSubs[m]
            /\ watchSubs'[m] = watchSubs[m]
            /\ goToTarget'[m] = goToTarget[m]
            /\ (Pending(m) \/ pc'[m] = pc[m])]_vars

C9_Witness ==
  /\ cur >= 2
  /\ mounted[cur]
  /\ Pending(cur)
  /\ \E m \in Mounts : m < cur /\ pc[m] \in {"when", "goTo"}

\* C10: when the destroy() of one handle throws, the cleanup still invokes
\* destroy() once on every widget it holds and on the view, logs the
\* failure and completes (the refs are cleared).
C10_TeardownFailureTolerated ==
  \A m \in Mounts :
    (CleanedUp(m) /\ initErr[m] = "") =>
      /\ \A h \in Handles : destroyCalls[m][h] = 1
      /\ destroyLog[m] = Handles \cap {throwing}
      /\ viewRef # m
      /\ \A w \in WidgetNames : widgetsRef[w] # m

C10_Witness ==
  /\ throwing \in WidgetNames
  /\ \E m \in Mounts :
       /\ CleanedUp(m)
       /\ destroyLog[m] = {throwing}
       /\ \A h \in Handles : destroyCalls[m][h] = 1

\* a run of the cleanup of the setup effect
CleanupStep == DepChange \/ StrictRemount \/ Unmount

\* the destroy() invocations made by the step being taken
NewCalls == SubSeq(destroyOrder', Len(destroyOrder) + 1, Len(destroyOrder'))
CallsOn(calls, k, h) ==
  Cardinality({i \in 1..Len(calls) : calls[i] = [m |-> k, h |-> h]})

\* C11: in every cleanup all destroy() invocations on widgets precede the
\* destroy() of their view, the cleanup leaves viewRef and widgetsRef
\* cleared, and a cleanup that runs while the refs are still cleared by an
\* earlier cleanup invokes destroy() on no handle.
C11_TeardownOrderAndIdempotence ==
  /\ [](\A i \in 1..Len(destroyOrder) :
          destroyOrder[i].h = "view" =>
            \A j \in (i + 1)..Len(destroyOrder) :
              destroyOrder[j].m # destroyOrder[i].m)
  /\ [][CleanupStep =>
          /\ viewRef' = 0
          /\ widgetsRef' = NoWidgets
          /\ \A k \in Mounts, h \in Handles :
               destroyCalls'[k][h] = destroyCalls[k][h] + CallsOn(NewCalls, k, h)
          /\ (viewRef = 0 /\ widgetsRef = NoWidgets) =>
               UNCHANGED <<destroyCalls, destroyOrder>>]_vars

\* the first cleanup destroyed the ten widgets and then the view of mount 1;
\* the next cleanup ran on the cleared refs and invoked nothing
C11_Witness ==
  /\ flush = "unmounted"
  /\ cur = 2
  /\ CleanedUp(2)
  /\ Len(destroyOrder) = 11
  /\ destroyOrder[11] = [m |-> 1, h |-> "view"]
  /\ \A h \in Handles : destroyCalls[1][h] = 1 /\ destroyCalls[2][h] = 0
  /\ viewRef = 0
  /\ widgetsRef = NoWidgets

\* the placement the specification gives for the default widgets
SevenDefaults ==
  [w \in {"home", "compass", "locate", "search", "fullscreen", "scaleBar",
          "coordinateConversion"} |->
     CASE w \in {"home", "compass", "locate"} -> "top-left"
       [] w \in {"search", "fullscreen"} -> "top-right"
       [] w = "scaleBar" -> "bottom-right"
       [] w = "coordinateConversion" -> "bottom-left"]
OnDemand == {"basemapGallery", "measurement", "sketch"}

HoldsSevenDefaults(surface) ==
  /\ OnUi(surface) = DOMAIN SevenDefaults
  /\ \A w \in DOMAIN SevenDefaults : surface[w] = SevenDefaults[w]

\* C12: a setup whose initializeMap succeeds leaves on the surface of the
\* new view exactly the seven default widgets at their anchors, with the
\* basemap gallery, measurement and sketch widgets constructed but not on
\* it, and until the first toggle or the teardown of that view no step
\* changes the surface (the first run of the two toggle effects included).
C12_DefaultSurfaceAfterInit ==
  /\ [][(Setup /\ initErr'[cur'] = "") =>
          /\ viewRef' = cur'
          /\ HoldsSevenDefaults(ui'[cur'])
          /\ OnDemand \subseteq created'[cur']
          /\ \A w \in OnDemand : widgetsRef'[w] = cur'
          /\ OnDemand \cap OnUi(ui'[cur']) = {}]_vars
  /\ [][(~ToggleBasemap /\ ~ToggleTools /\ ~CleanupStep /\ ~Setup) =>
          UNCHANGED ui]_vars

\* the first toggle effects have run on the freshly initialized view
C12_Witness ==
  /\ flush = "idle"
  /\ cur = 1
  /\ pc[1] = "afterInit"
  /\ initErr[1] = ""
  /\ viewRef = 1
  /\ uiTarget = 1
  /\ HoldsSevenDefaults(ui[1])
  /\ OnDemand \subseteq created[1]

Once(supplied) == IF supplied THEN 1 ELSE 0

\* C13 as stated: in every mount whose view was constructed, once the
\* continuation that follows the construction has run, each supplied
\* callback has been subscribed exactly once on that mount's view.
C13_SubscribedExactlyOnce ==
  \A m \in Mounts :
    ("view" \in created[m] /\ pc[m] \notin {"idle", "afterInit"}) =>
      /\ clickSubs[m] = Once(callbacks.click)
      /\ watchSubs[m] = Once(callbacks.extent)

\* C13 amended: a callback is subscribed at most once per mount and only if
\* supplied; it is subscribed exactly once in the mounts whose sequence got
\* past addPointsToLayer (initializeMap fulfilled, no cleanup before the
\* continuation, bounds computed) and not at all in the others; the
\* subscription is made on the constructed, not yet destroyed view of that
\* mount.
C13_SubscribedOnceWhenReached ==
  /\ [](\A m \in Mounts :
          LET reached == bounds[m] # NoResult
          IN /\ clickSubs[m] = Once(callbacks.click /\ reached)
             /\ watchSubs[m] = Once(callbacks.extent /\ reached)
             /\ reached => ("view" \in created[m] /\ initErr[m] = "")
             /\ pc[m] \in {"when", "goTo", "ready"} => reached)
  /\ [][\A m \in Mounts :
          (clickSubs'[m] # clickSubs[m] \/ watchSubs'[m] # watchSubs[m]) =>
            /\ "view" \in created[m]
            /\ viewRef = m
            /\ destroyCalls[m]["view"] = 0]_vars

\* two mounts of one instance, each with one subscription per callback
C13_Witness ==
  /\ callbacks = BothCallbacks
  /\ cur = 2
  /\ \A m \in 1..2 : clickSubs[m] = 1 /\ watchSubs[m] = 1
  /\ pc[2] = "ready"

\* the component is Ready: the current setup sequence has completed and the
\* map is shown without loading overlay or error panel
Ready ==
  /\ flush = "idle"
  /\ cur >= 1
  /\ mounted[cur]
  /\ pc[cur] = "ready"
  /\ viewRef = cur
  /\ loading = FALSE
  /\ error = Null

\* C14: whenever the component is Ready, toolsOpen is true exactly when the
\* measurement and sketch widgets of the current view are on its UI surface
\* and basemapOpen is true exactly when its basemap gallery is on it.
C14_TogglesAgreeWithSurface ==
  Ready =>
    LET shown == OnUi(ui[viewRef])
    IN /\ toolsOpen <=> ToolWidgets \subseteq shown
       /\ ~toolsOpen <=> ToolWidgets \cap shown = {}
       /\ basemapOpen <=> "basemapGallery" \in shown

====
